---- MODULE Spec2Model ----
(***************************************************************************)
(* SensorTower dashboard: the API client's request / cache / usage-ledger  *)
(* subsystem (src/src/api/sensortower_client.py) and the batched           *)
(* sales-estimate fetch of the refresh script (src/scripts/data_refresh.py)*)
(* together with the run of refresh_data around it and the app directory   *)
(* of build_app_details (src/scripts/generate_dashboard_data.py).           *)
(*                                                                         *)
(* Time is an integer clock `now`.  The cache directory is a function from *)
(* cache keys to files [mtime, data]; the usage ledger is the in-memory    *)
(* dict usage_log and its file usage_file.  JSON payloads are records      *)
(* [kind, key, body]: kind is "null", "dict" or "list"; for a dict, key    *)
(* names the list-valued member the code reads and body is that list.      *)
(***************************************************************************)
EXTENDS Integers, Sequences, FiniteSets, TLC

VARIABLES
    now,                \* wall clock (datetime.now() / time.time())
    cache,              \* CACHE_DIR: cache key -> [mtime, data]
    usage_log,          \* self.usage_log: [requests, monthly_counts]
    usage_file,         \* data/api_usage_log.json: [exists, content]
    last_request_time,  \* self.last_request_time
    request_count,      \* self.request_count
    month_keys,         \* the month key each _log_request call computed, in order
    last,               \* the latest client call: its arguments and outcome
    sales,              \* the frame of fetch_sales_estimates: position, locals,
                        \* and the log of the requests it made
    ledger,             \* a second client instance of the process and the
                        \* position of the ledger write in progress
    refresh,            \* the frame of refresh_data: position and locals
    files,              \* dashboard_data/: the artifacts refresh_data writes
    directory           \* a call of build_app_details: arguments and result

vars == <<now, cache, usage_log, usage_file, last_request_time, request_count,
          month_keys, last, sales, ledger, refresh, files, directory>>

----------------------------------------------------------------------------
(* Bounds of the model *)

MaxTime == 5            \* the clock stops advancing here
MaxRecords == 2         \* at most this many usage records are written
MonthLen == 3           \* clock units per calendar month
MaxDur == 1             \* longest time a GET or a step inside a handler takes
MaxTopRecords == 3      \* usage records written in SpecTop
MaxFailures == 2        \* failed requests in one run of fetch_sales_estimates
MaxEmpty == 1           \* responses without records in one run
MaxLedgerCalls == 3     \* record calls made by the two client instances
DayLen == 2             \* clock units per calendar day
NumCategories == 2      \* categories of CATEGORIES given to build_app_details
MaxChartApps == 2       \* apps in one chart given to build_app_details
MaxRuns == 2            \* runs of refresh_data
MaxRefreshTime == 8     \* the clock value no refresh step goes beyond

(* Client configuration, in clock units *)

cache_ttl == 2
rate_limit_delay == 1

----------------------------------------------------------------------------
(* JSON values *)

Null == [kind |-> "null", key |-> "", body |-> <<>>]

Dict(k, b) == [kind |-> "dict", key |-> k, body |-> b]

List(b) == [kind |-> "list", key |-> "", body |-> b]

\* A test for None that a stored null payload passes as a value
IsNoneNever(v) == FALSE

IsNone(v) == v.kind = "null"

EmptyFn == [x \in {} |-> 0]

Put(f, k, v) == [x \in (DOMAIN f) \cup {k} |-> IF x = k THEN v ELSE f[x]]

Range(s) == {s[i] : i \in DOMAIN s}

(* datetime.now().strftime("%Y-%m") *)
MonthKey(t) == t \div MonthLen

----------------------------------------------------------------------------
(* Usage ledger *)

EmptyLog == [requests |-> <<>>, monthly_counts |-> EmptyFn]

\* get_monthly_usage(month): monthly_counts.get(month, 0)
get_monthly_usage(log, month) ==
    IF month \in DOMAIN log.monthly_counts THEN log.monthly_counts[month] ELSE 0

RECURSIVE SumCounts(_, _)
SumCounts(counts, months) ==
    IF months = {} THEN 0
    ELSE LET m == CHOOSE x \in months : TRUE
         IN  counts[m] + SumCounts(counts, months \ {m})

\* The calls counted over all months
TotalCount(log) == SumCounts(log.monthly_counts, DOMAIN log.monthly_counts)

\* _log_request with the month's count set instead of incremented
LogRequestWrong(log, endpoint, t1, t2) ==
    [requests |-> Append(log.requests, [timestamp |-> t1, endpoint |-> endpoint]),
     monthly_counts |-> Put(log.monthly_counts, MonthKey(t2), 1)]

\* _log_request keeping only the newest record in the list
LogRequestTrimming(log, endpoint, t1, t2) ==
    [requests |-> <<[timestamp |-> t1, endpoint |-> endpoint]>>,
     monthly_counts |->
        Put(log.monthly_counts, MonthKey(t2),
            get_monthly_usage(log, MonthKey(t2)) + 1)]

\* _log_request: timestamp read at t1, month_key read at t2 >= t1
_log_request(log, endpoint, t1, t2) ==
    [requests |-> Append(log.requests, [timestamp |-> t1, endpoint |-> endpoint]),
     monthly_counts |->
        Put(log.monthly_counts, MonthKey(t2),
            get_monthly_usage(log, MonthKey(t2)) + 1)]

----------------------------------------------------------------------------
(* Cache store *)

\* Lexicographic order of the parameter names, as json.dumps(sort_keys=True)
\* orders them
ParamOrder ==
    <<"app_ids", "category", "chart_type", "country", "date",
      "date_granularity", "end_date", "start_date">>

\* params is a dict in insertion order: a sequence of <<name, value>> with
\* distinct names
HasParam(params, name) == \E i \in DOMAIN params : params[i][1] = name

ParamValue(params, name) ==
    params[CHOOSE i \in DOMAIN params : params[i][1] = name][2]

RECURSIVE SortedFrom(_, _)
SortedFrom(params, i) ==
    IF i > Len(ParamOrder) THEN <<>>
    ELSE IF HasParam(params, ParamOrder[i])
         THEN <<(<<ParamOrder[i], ParamValue(params, ParamOrder[i])>>)>>
              \o SortedFrom(params, i + 1)
         ELSE SortedFrom(params, i + 1)

\* json.dumps(params) without sort_keys: insertion order
DumpsUnsorted(params) == params

\* json.dumps(params, sort_keys=True)
DumpsSorted(params) == SortedFrom(params, 1)

\* _get_cache_key: md5 of "endpoint:json", taken as injective
_get_cache_key(endpoint, params) == <<endpoint, DumpsSorted(params)>>

\* _is_cache_valid with an entry of age TTL still valid
IsCacheValidLeq(c, key, t) ==
    /\ key \in DOMAIN c
    /\ t - c[key].mtime <= cache_ttl

\* _is_cache_valid at clock value t
_is_cache_valid(c, key, t) ==
    /\ key \in DOMAIN c
    /\ t - c[key].mtime < cache_ttl

\* The content of a cache file whose write was cut short: not valid JSON
Truncated == [kind |-> "truncated", key |-> "", body |-> <<>>]

\* The content of a cache file that is valid JSON without a "data" member
NoDataField == [kind |-> "nodata", key |-> "", body |-> <<>>]

IsCorrupt(file) == file.data.kind \in {"truncated", "nodata"}

\* _get_from_cache: [hit |-> "[cache hit]" was printed, data |-> returned value,
\* raised |-> json.load or cached["data"] raised]
_get_from_cache(c, key, t) ==
    IF _is_cache_valid(c, key, t)
    THEN IF IsCorrupt(c[key])
         THEN [hit |-> c[key].data.kind = "nodata", data |-> Null,
               raised |-> TRUE]
         ELSE [hit |-> TRUE, data |-> c[key].data, raised |-> FALSE]
    ELSE [hit |-> FALSE, data |-> Null, raised |-> FALSE]

\* The cache directory after a read that unlinks the file it finds expired
AfterReadEvicting(c, key, t) ==
    IF key \in DOMAIN c /\ ~_is_cache_valid(c, key, t)
    THEN [k \in DOMAIN c \ {key} |-> c[k]]
    ELSE c

\* The cache directory after _get_from_cache: the file is only stat-ed and
\* opened with mode 'r'
AfterRead(c, key, t) == c

\* clear_old_cache removing also a file exactly as old as the cutoff
ClearOldCacheLeq(c, t, days) ==
    LET old == {k \in DOMAIN c : c[k].mtime <= t - days * DayLen}
    IN  [cache |-> [k \in DOMAIN c \ old |-> c[k]],
         removed |-> Cardinality(old)]

\* clear_old_cache(days) at clock value t: [cache |-> the directory after
\* the sweep, removed |-> the returned count]
clear_old_cache(c, t, days) ==
    LET cutoff == t - days * DayLen
        old == {k \in DOMAIN c : c[k].mtime < cutoff}
    IN  [cache |-> [k \in DOMAIN c \ old |-> c[k]],
         removed |-> Cardinality(old)]

\* _save_to_cache leaving a file that exists as it is
SaveKeepsOld(c, key, data, t) ==
    IF key \in DOMAIN c THEN c ELSE Put(c, key, [mtime |-> t, data |-> data])

\* _save_to_cache at clock value t
_save_to_cache(c, key, data, t) ==
    Put(c, key, [mtime |-> t, data |-> data])

----------------------------------------------------------------------------
(* Request gateway.  A client state st is the record of the client's       *)
(* fields and files; up is what the upstream does with the GET, if one is  *)
(* issued: [status, data, dur, logd], where dur is the time the GET takes  *)
(* and logd the time between the two clock reads of _log_request.          *)

Client ==
    [now |-> now, cache |-> cache, usage_log |-> usage_log,
     usage_file |-> usage_file, last_request_time |-> last_request_time,
     request_count |-> request_count, month_keys |-> month_keys]

\* Lines 143-145: the clock value at which the GET is issued
SendTime(st) ==
    LET time_since_last == st.now - st.last_request_time
    IN  IF time_since_last < rate_limit_delay
        THEN st.now + (rate_limit_delay - time_since_last)
        ELSE st.now

\* Lines 161-162 with the usage recorded whatever the status
RecordUnchecked(st, endpoint, key, up, tResp) ==
    LET log == _log_request(st.usage_log, endpoint, tResp, tResp + up.logd)
    IN  [st EXCEPT !.now = tResp + up.logd,
                   !.last_request_time = tResp,
                   !.usage_log = log,
                   !.usage_file = [exists |-> TRUE, content |-> log],
                   !.request_count = st.request_count + 1,
                   !.month_keys = Append(st.month_keys,
                                         MonthKey(tResp + up.logd)),
                   !.cache = IF up.status = "ok"
                             THEN _save_to_cache(st.cache, key, up.data,
                                                 tResp + up.logd)
                             ELSE st.cache]

\* Lines 161-162: _log_request (with _save_usage_log) then _save_to_cache
RecordSuccess(st, endpoint, key, up, tResp) ==
    LET log == _log_request(st.usage_log, endpoint, tResp, tResp + up.logd)
    IN  IF up.status = "ok"
        THEN [st EXCEPT !.now = tResp + up.logd,
                        !.last_request_time = tResp,
                        !.usage_log = log,
                        !.usage_file = [exists |-> TRUE, content |-> log],
                        !.request_count = st.request_count + 1,
                        !.month_keys = Append(st.month_keys,
                                              MonthKey(tResp + up.logd)),
                        !.cache = _save_to_cache(st.cache, key, up.data,
                                                 tResp + up.logd)]
        ELSE [st EXCEPT !.now = tResp, !.last_request_time = tResp]

WarnThreshold == 2000

\* The limit the warning names
HardLimit == 2500

\* The limit of the usage monitor (check_usage.py)
hard_limit == 3000

\* The warning printed only above the limit
WarnsOverLimit(usage) == usage > HardLimit

\* Lines 153-154: the warning is printed
Warns(usage) == usage >= WarnThreshold

\* The GET sent again after a failure
IssueGetRetrying(st, endpoint, params, key, up) ==
    LET tSend == SendTime(st)
        tResp == tSend + up.dur
    IN  IF up.status = "transport_error"
        THEN [st |-> [st EXCEPT !.now = tResp],
              raised |-> TRUE, ret |-> Null, gets |-> 2,
              warned |-> Warns(get_monthly_usage(st.usage_log, MonthKey(tSend))),
              sent_at |-> tSend]
        ELSE [st |-> RecordSuccess(st, endpoint, key, up, tResp),
              raised |-> up.status # "ok",
              ret |-> IF up.status = "ok" THEN up.data ELSE Null,
              gets |-> IF up.status = "ok" THEN 1 ELSE 2,
              warned |-> Warns(get_monthly_usage(st.usage_log, MonthKey(tSend))),
              sent_at |-> tSend]

\* Lines 143-164: the cooldown, the warning, the GET and what follows it:
\* [st, raised, ret, gets |-> GETs issued, warned, sent_at]
IssueGet(st, endpoint, params, key, up) ==
    LET tSend == SendTime(st)
        tResp == tSend + up.dur
        out   == st
        usage == get_monthly_usage(st.usage_log, MonthKey(tSend))
    IN  IF up.status = "transport_error"
        THEN \* requests.get raises: last_request_time is not assigned
             [st |-> [out EXCEPT !.now = tResp],
              raised |-> TRUE, ret |-> Null, gets |-> 1,
              warned |-> Warns(usage), sent_at |-> tSend]
        ELSE [st |-> RecordSuccess(out, endpoint, key, up, tResp),
              raised |-> up.status # "ok",
              ret |-> IF up.status = "ok" THEN up.data ELSE Null,
              gets |-> 1, warned |-> Warns(usage), sent_at |-> tSend]

\* _make_request: [st, raised, ret, hit, http, warned, sent_at, read_raised]
_make_request(st0, endpoint, params, use_cache, up) ==
    LET cache_key == _get_cache_key(endpoint, params)
        cached == IF use_cache
                  THEN _get_from_cache(st0.cache, cache_key, st0.now)
                  ELSE [hit |-> FALSE, data |-> Null, raised |-> FALSE]
        st == IF use_cache
              THEN [st0 EXCEPT !.cache = AfterRead(st0.cache, cache_key, st0.now)]
              ELSE st0
    IN  IF use_cache /\ cached.raised
        THEN \* the exception of the cache read leaves _make_request
             [st |-> st, raised |-> TRUE, ret |-> Null,
              hit |-> cached.hit, http |-> 0, warned |-> FALSE,
              sent_at |-> 0, read_raised |-> TRUE]
        ELSE IF use_cache /\ ~IsNone(cached.data)
        THEN [st |-> st, raised |-> FALSE, ret |-> cached.data,
              hit |-> cached.hit, http |-> 0, warned |-> FALSE,
              sent_at |-> 0, read_raised |-> FALSE]
        ELSE LET r == IssueGet(st, endpoint, params, cache_key, up)
             IN  [st |-> r.st, raised |-> r.raised, ret |-> r.ret,
                  hit |-> cached.hit, http |-> r.gets, warned |-> r.warned,
                  sent_at |-> r.sent_at, read_raised |-> FALSE]

\* What the upstream may do with a GET whose well-formed bodies are Bodies,
\* the GET and the ledger write taking a time in Durs each
Upstream(Bodies, Durs) ==
    [status : {"ok"}, data : Bodies, dur : Durs, logd : Durs]
    \cup [status : {"http_error", "transport_error"}, data : {Null},
          dur : Durs, logd : {0}]

\* The client's fields and files take the values of st
Install(st) ==
    /\ now' = st.now
    /\ cache' = st.cache
    /\ usage_log' = st.usage_log
    /\ usage_file' = st.usage_file
    /\ last_request_time' = st.last_request_time
    /\ request_count' = st.request_count
    /\ month_keys' = st.month_keys

----------------------------------------------------------------------------
(* Gateway operations *)

FetchEndpoints == {"ios/apps"}

FetchParams ==
    { <<>>,
      <<(<<"category", "6014">>), (<<"country", "US">>)>>,
      <<(<<"country", "US">>), (<<"category", "6014">>)>> }

FetchBodies == {Null, Dict("apps", <<1>>)}

\* The record kept of a _make_request call
CallRecord(st, endpoint, params, use_cache, up, r) ==
    [op |-> "fetch",
     endpoint |-> endpoint, params |-> params, use_cache |-> use_cache,
     at |-> st.now,
     counted |-> TotalCount(r.st.usage_log) - TotalCount(st.usage_log),
     cache_empty |-> (st.cache = EmptyFn),
     status |-> IF r.http = 1 THEN up.status ELSE "none",
     raised |-> r.raised, ret |-> r.ret, hit |-> r.hit, http |-> r.http,
     warned |-> r.warned, sent_at |-> r.sent_at, read_raised |-> r.read_raised,
     replaced |-> LET key == _get_cache_key(endpoint, params)
                  IN  /\ r.http = 1 /\ ~r.raised
                      /\ key \in DOMAIN st.cache
                      /\ st.cache[key].data # r.ret]

NoCall ==
    [op |-> "none", endpoint |-> "", params |-> <<>>, use_cache |-> FALSE,
     at |-> 0, counted |-> 0,
     cache_empty |-> TRUE, status |-> "none", raised |-> FALSE, ret |-> Null,
     hit |-> FALSE, http |-> 0, warned |-> FALSE, sent_at |-> 0,
     read_raised |-> FALSE, replaced |-> FALSE]

\* fetch_sales_estimates is not running
NoSales ==
    [pc |-> "idle", app_ids_list |-> <<>>, today |-> 0, batches |-> <<>>,
     p |-> 1, b |-> 1, results |-> EmptyFn, shape |-> "list", log |-> <<>>]

\* No second client instance, no ledger write in progress
NoLedger ==
    [pc |-> "idle", who |-> 1, torn |-> FALSE,
     before |-> [exists |-> FALSE, content |-> EmptyLog],
     made |-> FALSE, usage_log |-> EmptyLog, recorded |-> <<>>]

\* No artifact has been written: run is the number of the run that wrote
\* the file, 0 for a file that does not exist
NoFiles ==
    [current |-> [run |-> 0, app_ids |-> {}],
     snapshots |-> EmptyFn,
     trends |-> <<>>,
     metadata |-> [run |-> 0, total_apps |-> 0, api_calls_this_refresh |-> 0,
                   api_usage_monthly |-> 0]]

\* refresh_data is not running and has not run.  runs counts the runs
\* started; raised tells that a get_top_apps call of the latest run raised,
\* before is the content of files when it started, wrote the values of
\* today of the runs that wrote their snapshot and completed the dates on
\* which those runs ended.
NoRefresh ==
    [pc |-> "idle", runs |-> 0, step |-> 1, today |-> 0, ranking_date |-> 0,
     usage_before |-> 0, free_data |-> EmptyFn, grossing_data |-> EmptyFn,
     raised |-> FALSE, before |-> NoFiles, wrote |-> {}, completed |-> {}]

\* build_app_details has not been called
NoDirectory ==
    [pc |-> "idle", free_data |-> EmptyFn, grossing_data |-> EmptyFn,
     app_details |-> EmptyFn]

NoUp == [status |-> "ok", data |-> Null, dur |-> 0, logd |-> 0]

\* fetch: one call of _make_request
Fetch(endpoint, params, use_cache) ==
    \E up \in Upstream(FetchBodies, 0..MaxDur) :
      \E r \in {_make_request(Client, endpoint, params, use_cache, up)} :
            /\ r.st.request_count <= MaxRecords
            /\ r.st.now <= MaxTime
            /\ (r.http = 0) => (up = NoUp)
            /\ Install(r.st)
            /\ last' = CallRecord(Client, endpoint, params, use_cache, up, r)
            /\ UNCHANGED <<sales, ledger,
                           refresh, files, directory>>

\* The clock advances between operations
Tick ==
    /\ now < MaxTime
    /\ now' = now + 1
    /\ UNCHANGED <<cache, usage_log, usage_file, last_request_time,
                   request_count, month_keys, last, sales, ledger,
                   refresh, files, directory>>

Init ==
    /\ now = rate_limit_delay
    /\ cache = EmptyFn
    /\ usage_log = EmptyLog
    /\ usage_file = [exists |-> FALSE, content |-> EmptyLog]
    /\ last_request_time = 0
    /\ request_count = 0
    /\ month_keys = <<>>
    /\ last = NoCall
    /\ sales = NoSales
    /\ ledger = NoLedger
    /\ refresh = NoRefresh
    /\ files = NoFiles
    /\ directory = NoDirectory

DoFetch == \E e \in FetchEndpoints, p \in FetchParams, uc \in BOOLEAN : Fetch(e, p, uc)

Next == DoFetch \/ Tick

Spec == Init /\ [][Next]_vars

\* The write of the cache file of key is cut short at the current time (a
\* process killed between open(cache_path, 'w') and the end of json.dump,
\* lines 120-124), or the file is replaced by JSON without a "data" member.
\* One file is damaged at a time, while the client still has calls to make.
CorruptEntry(key, content) ==
    /\ key \in DOMAIN cache
    /\ \A k \in DOMAIN cache : ~IsCorrupt(cache[k])
    /\ request_count < MaxRecords
    /\ cache' = Put(cache, key, [mtime |-> now, data |-> content])
    /\ UNCHANGED <<now, usage_log, usage_file, last_request_time,
                   request_count, month_keys, last, sales, ledger,
                   refresh, files, directory>>

\* The retention windows of the sweeps, in days
SweepDays == {0, 1}

\* The record kept of a clear_old_cache call
SweepRecord(days, r) ==
    [op |-> "sweep", days |-> days, at |-> now, removed |-> r.removed]

\* sweep: one call of clear_old_cache(days)
Sweep(days) ==
    \E r \in {clear_old_cache(cache, now, days)} :
        /\ cache' = r.cache
        /\ last' = SweepRecord(days, r)
        /\ UNCHANGED <<now, usage_log, usage_file, last_request_time,
                       request_count, month_keys, sales, ledger,
                       refresh, files, directory>>

DoSweep == \E days \in SweepDays : Sweep(days)

NextSweep == DoFetch \/ Tick \/ DoSweep

SpecSweep == Init /\ [][NextSweep]_vars

DoCorrupt ==
    \E key \in DOMAIN cache, content \in {Truncated, NoDataField} :
        CorruptEntry(key, content)

NextCorrupt == DoFetch \/ Tick \/ DoCorrupt

SpecCorrupt == Init /\ [][NextCorrupt]_vars

\* The ledger of a client that recorded n calls at time 0 in earlier runs
PastLog(n) ==
    [requests |-> [i \in 1..n |-> [timestamp |-> 0, endpoint |-> "ios/apps"]],
     monthly_counts |-> IF n = 0 THEN EmptyFn ELSE Put(EmptyFn, MonthKey(0), n)]

\* Usage counts loaded from the ledger file when the client is constructed
PastUsage == {0, HardLimit - 1, hard_limit - 1}

\* Lines 40-58 with a ledger file of earlier runs
InitQuota ==
    /\ now = rate_limit_delay
    /\ cache = EmptyFn
    /\ \E n \in PastUsage :
          /\ usage_log = PastLog(n)
          /\ usage_file = [exists |-> n > 0, content |-> PastLog(n)]
          /\ month_keys = [i \in 1..n |-> MonthKey(0)]
    /\ last_request_time = 0
    /\ request_count = 0
    /\ last = NoCall
    /\ sales = NoSales
    /\ ledger = NoLedger
    /\ refresh = NoRefresh
    /\ files = NoFiles
    /\ directory = NoDirectory

DoQuotaFetch == \E uc \in BOOLEAN : Fetch("ios/apps", <<>>, uc)

NextQuota == DoQuotaFetch \/ Tick

SpecQuota == InitQuota /\ [][NextQuota]_vars

----------------------------------------------------------------------------
(* The ledger write step by step, with two client instances that share the *)
(* ledger file, in one process or in two.                                   *)
(* ledger.usage_log is self.usage_log of the second instance; while        *)
(* ledger.torn the ledger file holds no complete JSON text; ledger.before  *)
(* is the file as it was before the write in progress; ledger.recorded     *)
(* lists the instances whose record calls completed.                       *)

\* self.usage_log of instance who
Mem(who) == IF who = 1 THEN usage_log ELSE ledger.usage_log

\* The dict that a record call on the file's content would update
LedgerBaseReloaded(who) ==
    IF usage_file.exists THEN usage_file.content ELSE Mem(who)

\* Line 77: the dict that _log_request of instance who updates
LedgerBase(who) == Mem(who)

\* Lines 62-67: a second SensorTowerClient is constructed
MakeSecond ==
    /\ ledger.pc = "idle" /\ ~ledger.made
    /\ ledger' = [ledger EXCEPT !.made = TRUE,
                                !.usage_log = IF usage_file.exists
                                              THEN usage_file.content
                                              ELSE EmptyLog]
    /\ UNCHANGED <<now, cache, usage_log, usage_file, last_request_time,
                   request_count, month_keys, last, sales,
                   refresh, files, directory>>

\* Lines 74-84 of _log_request and line 70 of _save_usage_log: the two clock
\* reads d apart, the updates in memory, and open(file, 'w') emptying the file
RecordOpen(who, d) ==
    /\ ledger.pc = "idle"
    /\ (who = 2) => ledger.made
    /\ Len(ledger.recorded) < MaxLedgerCalls
    /\ now + d <= MaxTime
    /\ \E log \in {_log_request(LedgerBase(who), "ios/apps", now, now + d)} :
          /\ usage_log' = IF who = 1 THEN log ELSE usage_log
          /\ ledger' = [ledger EXCEPT !.pc = "writing", !.who = who,
                                      !.torn = TRUE, !.before = usage_file,
                                      !.usage_log = IF who = 2 THEN log ELSE @]
    /\ usage_file' = [exists |-> TRUE, content |-> EmptyLog]
    /\ now' = now + d
    /\ month_keys' = Append(month_keys, MonthKey(now + d))
    /\ UNCHANGED <<cache, last_request_time, request_count, last, sales,
                   refresh, files, directory>>

\* Line 71 and line 87: json.dump completes, the file is closed
RecordClose ==
    /\ ledger.pc = "writing"
    /\ usage_file' = [exists |-> TRUE, content |-> Mem(ledger.who)]
    /\ ledger' = [ledger EXCEPT !.pc = "idle", !.torn = FALSE,
                                !.recorded = Append(@, ledger.who)]
    /\ request_count' = IF ledger.who = 1 THEN request_count + 1
                        ELSE request_count
    /\ UNCHANGED <<now, cache, usage_log, last_request_time, month_keys,
                   last, sales,
                   refresh, files, directory>>

\* The process is killed between open(file, 'w') and the end of json.dump
Crash ==
    /\ ledger.pc = "writing"
    /\ ledger' = [ledger EXCEPT !.pc = "crashed"]
    /\ UNCHANGED <<now, cache, usage_log, usage_file, last_request_time,
                   request_count, month_keys, last, sales,
                   refresh, files, directory>>

DoRecordOpen == \E who \in {1, 2}, d \in 0..MaxDur : RecordOpen(who, d)

NextLedger == MakeSecond \/ DoRecordOpen \/ RecordClose \/ Crash \/ Tick

SpecLedger == Init /\ [][NextLedger]_vars

----------------------------------------------------------------------------
(* Domain operations: get_top_apps and get_app_details *)

CHART_TOP_FREE == "topfreeapplications"

CHART_TOP_GROSSING == "topgrossingapplications"

Min(a, b) == IF a < b THEN a ELSE b

\* s[:n] for n >= 0
Take(s, n) == SubSeq(s, 1, Min(n, Len(s)))

\* data.get(k, []) on a dict payload
DictGet(data, k) == IF data.key = k THEN data.body ELSE <<>>

\* limit or 100
DetailsCap == 100

\* A limit of None behaves as one of 0: both are falsy
NoLimit == 0

\* get_app_details: [st, raised, ret, http]
get_app_details(st, app_ids, use_cache, up) ==
    LET params == <<(<<"app_ids", app_ids>>)>>
        r == _make_request(st, "ios/apps", params, use_cache, up)
    IN  [st |-> r.st,
         \* data.get on a payload that is no dict raises AttributeError
         raised |-> r.raised \/ r.ret.kind # "dict",
         ret |-> IF ~r.raised /\ r.ret.kind = "dict"
                 THEN DictGet(r.ret, "apps") ELSE <<>>,
         http |-> r.http]

\* Lines 198-218 of get_top_apps, with an explicit date: the ranking request
\* and the truncation to limit
TopRanking(st, category, chart_type, date, limit, use_cache, up1) ==
    LET params == <<(<<"category", category>>), (<<"chart_type", chart_type>>),
                    (<<"date", date>>), (<<"country", "US">>)>>
        r == _make_request(st, "ios/ranking", params, use_cache, up1)
        all_ids == DictGet(r.ret, "ranking")
    IN  [st |-> r.st,
         \* data.get on a payload that is no dict raises AttributeError
         raised |-> r.raised \/ r.ret.kind # "dict",
         ranking |-> IF r.raised \/ r.ret.kind # "dict" THEN <<>>
                     ELSE IF limit # NoLimit THEN Take(all_ids, limit)
                     ELSE all_ids,
         http |-> r.http]

\* Line 220: the details request is made
WantsDetails(rk, resolve_details) ==
    ~rk.raised /\ resolve_details /\ rk.ranking # <<>>

\* Line 221: app_ids[:limit or 100], the ids handed to get_app_details
DetailsIds(app_ids, limit) ==
    Take(app_ids, IF limit # NoLimit THEN limit ELSE DetailsCap)

\* Lines 220-224 of get_top_apps, rk being the outcome of lines 198-218
TopDetails(rk, limit, use_cache, resolve_details, up2) ==
    IF WantsDetails(rk, resolve_details)
    THEN LET sent == DetailsIds(rk.ranking, limit)
             d == get_app_details(rk.st, sent, use_cache, up2)
         IN  [st |-> d.st, raised |-> d.raised, ranking |-> rk.ranking,
              apps |-> d.ret, http |-> rk.http + d.http,
              details_http |-> d.http,
              details_calls |-> 1, details_ids |-> sent]
    ELSE [st |-> rk.st, raised |-> rk.raised, ranking |-> rk.ranking,
          apps |-> <<>>, http |-> rk.http, details_http |-> 0,
          details_calls |-> 0, details_ids |-> <<>>]

\* get_top_apps: [st, raised, ranking, apps, http, details_http,
\* details_calls, details_ids]
get_top_apps(st, category, chart_type, date, limit, use_cache, resolve_details, up1, up2) ==
    TopDetails(TopRanking(st, category, chart_type, date, limit, use_cache, up1),
               limit, use_cache, resolve_details, up2)

Categories == {"6014"}

ChartTypes == {CHART_TOP_GROSSING}

Dates == {"2025-01-15"}

Limits == {NoLimit, 1}

\* A ranking response with one id more than one details request takes
LongRanking == [i \in 1..(DetailsCap + 1) |-> i]

RankingBodies == {Null, Dict("ranking", <<>>), Dict("ranking", LongRanking)}

DetailBodies == {Null, Dict("apps", <<1>>)}

RankingParams(category, chart_type, date) ==
    <<(<<"category", category>>), (<<"chart_type", chart_type>>),
      (<<"date", date>>), (<<"country", "US">>)>>

\* The record kept of a get_top_apps call
TopRecord(st, category, chart_type, date, limit, use_cache, resolve_details, r) ==
    [op |-> "top", category |-> category, chart_type |-> chart_type,
     date |-> date, limit |-> limit, use_cache |-> use_cache,
     resolve_details |-> resolve_details,
     at |-> st.now, cache_empty |-> (st.cache = EmptyFn),
     raised |-> r.raised, ranking |-> r.ranking, apps |-> r.apps,
     http |-> r.http,
     details_calls |-> r.details_calls, details_ids |-> r.details_ids]

TopApps(category, chart_type, date, limit, use_cache, resolve_details) ==
    \E up1 \in Upstream(RankingBodies, {0}) :
      \E rk \in {TopRanking(Client, category, chart_type, date, limit,
                            use_cache, up1)} :
        /\ (rk.http = 0) => up1 = NoUp
        /\ \E up2 \in IF WantsDetails(rk, resolve_details)
                      THEN Upstream(DetailBodies, {0}) ELSE {NoUp} :
             \E r \in {get_top_apps(Client, category, chart_type, date, limit,
                                    use_cache, resolve_details, up1, up2)} :
                /\ (r.details_http = 0) => up2 = NoUp
                /\ Len(r.st.usage_log.requests) <= MaxTopRecords
                /\ r.st.now <= MaxTime
                /\ Install(r.st)
                /\ last' = TopRecord(Client, category, chart_type, date, limit,
                                     use_cache, resolve_details, r)
                /\ UNCHANGED <<sales, ledger,
                               refresh, files, directory>>

DoTopApps ==
    \E c \in Categories, ct \in ChartTypes, d \in Dates, l \in Limits,
       uc \in BOOLEAN, rd \in BOOLEAN : TopApps(c, ct, d, l, uc, rd)

NextTop == DoTopApps \/ Tick

SpecTop == Init /\ [][NextTop]_vars

----------------------------------------------------------------------------
(* get_sales_estimates and the refresh script's fetch_sales_estimates.     *)
(* Dates are day numbers; an estimate record is [aid, iu, ir], a missing   *)
(* or null member being 0, which the code treats alike.                    *)

\* strftime("%Y-%m-%d") of the clock value t
DayOf(t) == t \div DayLen

\* get_sales_estimates with app_ids: [st, raised, ret, hit, http]
get_sales_estimates(st, app_ids, start_date, end_date, use_cache, up) ==
    IF app_ids = <<>>
    THEN \* ValueError: neither app_ids nor publisher_ids
         [st |-> st, raised |-> TRUE, ret |-> Null, hit |-> FALSE, http |-> 0]
    ELSE _make_request(st, "ios/sales_report_estimates",
                       <<(<<"date_granularity", "monthly">>),
                         (<<"start_date", start_date>>),
                         (<<"end_date", end_date>>),
                         (<<"app_ids", app_ids>>)>>,
                       use_cache, up)

BatchCap == 100

\* The periods of fetch_sales_estimates, in the order of the dict
PeriodKeys == <<"1m", "3m", "6m">>

PeriodDays == <<30, 90, 180>>

DlKey == <<"downloads_1m", "downloads_3m", "downloads_6m">>

RevKey == <<"revenue_1m", "revenue_3m", "revenue_6m">>

\* The default value of the results defaultdict
ZeroTotals ==
    [downloads_1m |-> 0, revenue_1m |-> 0, downloads_3m |-> 0,
     revenue_3m |-> 0, downloads_6m |-> 0, revenue_6m |-> 0]

\* Slices of BatchCap - 1 ids taken every BatchCap ids
RECURSIVE BatchesShort(_)
BatchesShort(ids) ==
    IF ids = <<>> THEN <<>>
    ELSE <<SubSeq(ids, 1, Min(BatchCap - 1, Len(ids)))>>
         \o BatchesShort(SubSeq(ids, Min(BatchCap, Len(ids)) + 1, Len(ids)))

\* Lines 56-58: app_ids_list[i:i + 100] for i in range(0, len, 100)
RECURSIVE Batches(_)
Batches(ids) ==
    IF ids = <<>> THEN <<>>
    ELSE <<SubSeq(ids, 1, Min(BatchCap, Len(ids)))>>
         \o Batches(SubSeq(ids, Min(BatchCap, Len(ids)) + 1, Len(ids)))

\* The amount in cents rounded to the nearest unit
IntCentsRounded(x) == (x + 50) \div 100

\* int(x / 100): the quotient truncated toward zero
IntCents(x) == IF x >= 0 THEN x \div 100 ELSE -((-x) \div 100)

\* Lines 79-82: one record added to the totals of period p
AddRecord(results, record, p) ==
    IF record.aid = 0 THEN results
    ELSE LET cur == IF record.aid \in DOMAIN results
                    THEN results[record.aid] ELSE ZeroTotals
         IN  Put(results, record.aid,
                 [cur EXCEPT ![DlKey[p]] = @ + record.iu,
                             ![RevKey[p]] = @ + IntCents(record.ir)])

RECURSIVE AddRecords(_, _, _, _)
AddRecords(results, recs, i, p) ==
    IF i > Len(recs) THEN results
    ELSE AddRecords(AddRecord(results, recs[i], p), recs, i + 1, p)

\* Lines 77-89: the records of a response added to the totals of period p
Aggregate(results, data, p) ==
    IF data.kind = "list" THEN AddRecords(results, data.body, 1, p)
    ELSE IF data.kind = "dict"
    THEN AddRecords(results,
                    IF data.key \in {"data", "estimates"} THEN data.body
                    ELSE <<>>,
                    1, p)
    ELSE results

\* The position after batch b of period p
NextPos(f) ==
    IF f.b < Len(f.batches) THEN [p |-> f.p, b |-> f.b + 1]
    ELSE [p |-> f.p + 1, b |-> 1]

LogEntry(f, r, up) ==
    [p |-> f.p, b |-> f.b, app_ids |-> f.batches[f.b],
     status |-> IF r.http = 1 THEN up.status ELSE "none",
     raised |-> r.raised, data |-> r.ret]

\* The loop body with a failed batch ending the whole loop
IterationAborting(f, r, up) ==
    [f EXCEPT !.results = IF r.raised THEN f.results
                          ELSE Aggregate(f.results, r.ret, f.p),
              !.log = Append(f.log, LogEntry(f, r, up)),
              !.p = IF r.raised THEN Len(PeriodKeys) + 1 ELSE NextPos(f).p,
              !.b = NextPos(f).b]

\* Lines 66-91: the frame after the iteration whose request had outcome r
Iteration(f, r, up) ==
    [f EXCEPT !.results = IF r.raised THEN f.results
                          ELSE Aggregate(f.results, r.ret, f.p),
              !.log = Append(f.log, LogEntry(f, r, up)),
              !.p = NextPos(f).p,
              !.b = NextPos(f).b]

\* The estimate records the upstream holds for a batch in period p
Rec(aid, p) == [aid |-> aid, iu |-> aid + p, ir |-> 12300 + 45 * p]

SalesRecords(batch, p) ==
    <<Rec(batch[1], p), Rec(batch[Len(batch)], p), Rec(batch[1], p)>>

Shaped(recs, shape) ==
    CASE shape = "list" -> List(recs)
      [] shape = "data" -> Dict("data", recs)
      [] shape = "estimates" -> Dict("estimates", recs)
      [] OTHER -> Null

Shapes == {"list", "data", "estimates", "null"}

NumFailed(log) == Cardinality({i \in DOMAIN log : log[i].raised})

NumEmpty(log) ==
    Cardinality({i \in DOMAIN log : ~log[i].raised /\ log[i].data.body = <<>>})

\* What the upstream may do with the request of the current batch
SalesUpstream(f) ==
    {[status |-> "ok", dur |-> 0, logd |-> 0,
      data |-> Shaped(SalesRecords(f.batches[f.b], f.p), f.shape)]}
    \cup (IF NumEmpty(f.log) < MaxEmpty /\ f.shape # "null"
          THEN {[status |-> "ok", dur |-> 0, logd |-> 0,
                 data |-> Shaped(<<>>, f.shape)]}
          ELSE {})
    \cup (IF NumFailed(f.log) < MaxFailures
          THEN [status : {"http_error", "transport_error"}, data : {Null},
                dur : {0}, logd : {0}]
          ELSE {})

Ids(n) == [i \in 1..n |-> i]

\* Lists of distinct ids, and one that repeats its first hundred ids
SalesInputs == {Ids(n) : n \in {0, 1, 100, 101, 250}} \cup {Ids(100) \o Ids(100)}

\* Lines 41-58: the periods, the empty results and the batches
SalesStart(app_ids_list, shape) ==
    /\ sales.pc = "idle"
    /\ sales' = [pc |-> "loop", app_ids_list |-> app_ids_list, today |-> now,
                 batches |-> Batches(app_ids_list), p |-> 1, b |-> 1,
                 results |-> EmptyFn, shape |-> shape, log |-> <<>>]
    /\ UNCHANGED <<now, cache, usage_log, usage_file, last_request_time,
                   request_count, month_keys, last, ledger,
                   refresh, files, directory>>

\* Lines 66-91: one iteration of the loops
SalesBatch ==
    /\ sales.pc = "loop"
    /\ sales.p <= Len(PeriodKeys) /\ sales.batches # <<>>
    /\ \E up \in SalesUpstream(sales) :
         \E r \in {get_sales_estimates(Client, sales.batches[sales.b],
                       DayOf(sales.today) - PeriodDays[sales.p],
                       DayOf(sales.today), TRUE, up)} :
            /\ Install(r.st)
            /\ sales' = Iteration(sales, r, up)
            /\ UNCHANGED <<last, ledger,
                           refresh, files, directory>>

\* Line 93: return dict(results)
SalesReturn ==
    /\ sales.pc = "loop"
    /\ sales.p > Len(PeriodKeys) \/ sales.batches = <<>>
    /\ sales' = [sales EXCEPT !.pc = "done"]
    /\ UNCHANGED <<now, cache, usage_log, usage_file, last_request_time,
                   request_count, month_keys, last, ledger,
                   refresh, files, directory>>

DoSalesStart == \E ids \in SalesInputs, shape \in Shapes : SalesStart(ids, shape)

NextSales == DoSalesStart \/ SalesBatch \/ SalesReturn

SpecSales == Init /\ [][NextSales]_vars

----------------------------------------------------------------------------
(* build_app_details (scripts/generate_dashboard_data.py)                   *)
(* An app record of a chart is [app_id, name]: name stands for all the      *)
(* fields copied from the record besides app_id.                            *)

\* CATEGORIES.values(), in the order of the dict
AllCategories ==
    <<"Games", "Finance", "Social Networking", "Productivity", "Photo & Video">>

CategoryNames == SubSeq(AllCategories, 1, NumCategories)

\* Lines 130-131 with a later record replacing the one already stored
AddAppOverwriting(apps, app) ==
    Put(apps, app.app_id, [app_id |-> app.app_id, name |-> app.name])

\* Lines 130-165: the record is stored unless its app_id already has one
AddApp(apps, app) ==
    IF app.app_id \in DOMAIN apps THEN apps
    ELSE Put(apps, app.app_id, [app_id |-> app.app_id, name |-> app.name])

\* Line 129: the loop over the apps of one chart
RECURSIVE AddApps(_, _, _)
AddApps(apps, chart_apps, i) ==
    IF i > Len(chart_apps) THEN apps
    ELSE AddApps(AddApp(apps, chart_apps[i]), chart_apps, i + 1)

\* Lines 126-129: the apps of a category's chart, none if the category is
\* missing from src_data
ChartOf(src_data, cat_name) ==
    IF cat_name \in DOMAIN src_data THEN src_data[cat_name] ELSE <<>>

\* Lines 124-125: the loops over the categories and the two sources
RECURSIVE BuildFrom(_, _, _, _)
BuildFrom(apps, free_data, grossing_data, c) ==
    IF c > Len(CategoryNames) THEN apps
    ELSE BuildFrom(AddApps(AddApps(apps,
                                   ChartOf(free_data, CategoryNames[c]), 1),
                           ChartOf(grossing_data, CategoryNames[c]), 1),
                   free_data, grossing_data, c + 1)

build_app_details(free_data, grossing_data) ==
    BuildFrom(EmptyFn, free_data, grossing_data, 1)

DirectoryIds == {1, 2}

\* The app records of a chart that lists ids: each occurrence differs from
\* every other in the fields besides app_id
ChartApps(cat_name, src_key, ids) ==
    [i \in 1..Len(ids) |-> [app_id |-> ids[i], name |-> <<cat_name, src_key, i>>]]

IdLists == UNION {[1..n -> DirectoryIds] : n \in 0..MaxChartApps}

\* The values of free_data (src_key "top_free") or grossing_data
DirectoryInputs(src_key) ==
    UNION { {[c \in D |-> ChartApps(c, src_key, f[c])] : f \in [D -> IdLists]}
            : D \in SUBSET Range(CategoryNames) }

InitDirectory ==
    /\ now = rate_limit_delay
    /\ cache = EmptyFn
    /\ usage_log = EmptyLog
    /\ usage_file = [exists |-> FALSE, content |-> EmptyLog]
    /\ last_request_time = 0
    /\ request_count = 0
    /\ month_keys = <<>>
    /\ last = NoCall
    /\ sales = NoSales
    /\ ledger = NoLedger
    /\ refresh = NoRefresh
    /\ files = NoFiles
    /\ \E fd \in DirectoryInputs("top_free"),
          gd \in DirectoryInputs("top_grossing") :
          directory = [pc |-> "called", free_data |-> fd,
                       grossing_data |-> gd, app_details |-> EmptyFn]

\* The call returns
BuildDirectory ==
    /\ directory.pc = "called"
    /\ directory' =
          [directory EXCEPT
             !.pc = "returned",
             !.app_details = build_app_details(directory.free_data,
                                               directory.grossing_data)]
    /\ UNCHANGED <<now, cache, usage_log, usage_file, last_request_time,
                   request_count, month_keys, last, sales, ledger, refresh,
                   files>>

NextDirectory == BuildDirectory

SpecDirectory == InitDirectory /\ [][NextDirectory]_vars

----------------------------------------------------------------------------
(* refresh_data (scripts/data_refresh.py)                                   *)
(* One category is refreshed: two get_top_apps calls, then the sales        *)
(* estimates of the apps found, then the writes of lines 164-220, which     *)
(* take no time.  Each run constructs its own client.                       *)

\* The first category of CATEGORIES
RefreshCategory == [cat_id |-> "6014", cat_name |-> AllCategories[1]]

\* Lines 119-143: the chart types in the order they are fetched
RefreshCharts == <<CHART_TOP_FREE, CHART_TOP_GROSSING>>

\* limit=50
RefreshLimit == 50

RefreshRankingBodies == {Dict("ranking", <<>>), Dict("ranking", <<1>>)}

RefreshDetailBodies == {Dict("apps", ChartApps("Games", "details", <<1>>))}

\* Lines 62-67: the ledger a new client loads
_load_usage_log(file) == IF file.exists THEN file.content ELSE EmptyLog

\* Lines 98-113: the client is constructed, the usage and the dates are read
RefreshStart ==
    /\ refresh.pc = "idle"
    /\ refresh.runs < MaxRuns
    /\ usage_log' = _load_usage_log(usage_file)
    /\ last_request_time' = 0
    /\ request_count' = 0
    /\ refresh' =
          [refresh EXCEPT
             !.pc = "charts", !.runs = @ + 1, !.step = 1,
             !.today = DayOf(now), !.ranking_date = DayOf(now) - 1,
             !.usage_before = get_monthly_usage(_load_usage_log(usage_file),
                                                MonthKey(now)),
             !.free_data = EmptyFn, !.grossing_data = EmptyFn,
             !.raised = FALSE, !.before = files]
    /\ UNCHANGED <<now, cache, usage_file, month_keys, last, sales, ledger,
                   files, directory>>

\* A raising get_top_apps call taken for one that found no app
AfterChartSwallowing(rf, r) ==
    LET apps == IF r.raised THEN <<>> ELSE r.apps
        entry == (RefreshCategory.cat_name :> apps)
    IN  [rf EXCEPT !.free_data = IF rf.step = 1 THEN entry ELSE @,
                   !.grossing_data = IF rf.step = 2 THEN entry ELSE @,
                   !.step = @ + 1,
                   !.pc = IF rf.step = Len(RefreshCharts) THEN "sales"
                          ELSE "charts"]

\* Lines 119-147: the frame after the get_top_apps call of outcome r; an
\* exception leaves refresh_data, a result is stored with its apps
\* (result.get('apps', []): none when the ranking was empty)
AfterChart(rf, r) ==
    IF r.raised THEN [rf EXCEPT !.pc = "idle"]
    ELSE LET entry == (RefreshCategory.cat_name :> r.apps)
         IN  [rf EXCEPT !.free_data = IF rf.step = 1 THEN entry ELSE @,
                        !.grossing_data = IF rf.step = 2 THEN entry ELSE @,
                        !.step = @ + 1,
                        !.pc = IF rf.step = Len(RefreshCharts) THEN "sales"
                               ELSE "charts"]

\* Lines 119-143: one get_top_apps call of the loop
RefreshChart ==
    /\ refresh.pc = "charts"
    /\ \E up1 \in Upstream(RefreshRankingBodies, {0}) :
         \E rk \in {TopRanking(Client, RefreshCategory.cat_id,
                               RefreshCharts[refresh.step],
                               refresh.ranking_date, RefreshLimit, FALSE,
                               up1)} :
           \E up2 \in IF WantsDetails(rk, TRUE)
                       THEN Upstream(RefreshDetailBodies, {0}) ELSE {NoUp} :
             \E r \in {get_top_apps(Client, RefreshCategory.cat_id,
                                    RefreshCharts[refresh.step],
                                    refresh.ranking_date, RefreshLimit,
                                    FALSE, TRUE, up1, up2)} :
                /\ r.st.now <= MaxRefreshTime
                /\ Install(r.st)
                /\ last' = TopRecord(Client, RefreshCategory.cat_id,
                                     RefreshCharts[refresh.step],
                                     refresh.ranking_date, RefreshLimit,
                                     FALSE, TRUE, r)
                /\ refresh' = [AfterChart(refresh, r)
                                 EXCEPT !.raised = refresh.raised \/ r.raised]
                /\ UNCHANGED <<sales, ledger, files, directory>>

\* The sequences that list each element of S once
SeqsOf(S) == {q \in [1..Cardinality(S) -> S] : Range(q) = S}

\* Lines 153-161: the directory is built and fetch_sales_estimates is called
\* with list({...}), the ids in the order the set yields them
RefreshSales ==
    /\ refresh.pc = "sales"
    /\ \E ids \in SeqsOf(DOMAIN build_app_details(refresh.free_data,
                                                   refresh.grossing_data)) :
          SalesStart(ids, "list")

\* The snapshot file of today replaced in the store by the new snapshot alone
WriteSnapshotAlone(snapshots, today, snapshot) == (today :> snapshot)

\* Lines 188-190: open(snapshots_dir / f"{today}.json", "w")
WriteSnapshot(snapshots, today, snapshot) == Put(snapshots, today, snapshot)

\* The chart's app ids
AppIds(chart_apps) == [i \in 1..Len(chart_apps) |-> chart_apps[i].app_id]

\* build_daily_snapshot of the rankings of run number run
build_daily_snapshot(rf, date_str) ==
    [date |-> date_str, run |-> rf.runs,
     top_free |-> AppIds(ChartOf(rf.free_data, RefreshCategory.cat_name)),
     top_grossing |-> AppIds(ChartOf(rf.grossing_data,
                                     RefreshCategory.cat_name))]

\* build_trends: the dates of the snapshot files in sorted order
build_trends(snapshots) ==
    CHOOSE q \in SeqsOf(DOMAIN snapshots) :
        \A i \in 1..(Len(q) - 1) : q[i] < q[i + 1]

\* Lines 164-210: every artifact is written once fetch_sales_estimates has
\* returned
RefreshWrite ==
    /\ refresh.pc = "sales"
    /\ sales.pc = "done"
    /\ LET app_details == build_app_details(refresh.free_data,
                                            refresh.grossing_data)
           snaps == WriteSnapshot(files.snapshots, refresh.today,
                                  build_daily_snapshot(refresh, refresh.today))
           usage_after == get_monthly_usage(usage_log, MonthKey(now))
       IN  files' =
             [current |-> [run |-> refresh.runs,
                           app_ids |-> DOMAIN app_details],
              snapshots |-> snaps,
              trends |-> build_trends(snaps),
              metadata |->
                 [run |-> refresh.runs,
                  total_apps |-> Cardinality(DOMAIN app_details),
                  api_calls_this_refresh |-> usage_after - refresh.usage_before,
                  api_usage_monthly |-> usage_after]]
    /\ refresh' = [refresh EXCEPT !.pc = "idle",
                                  !.wrote = @ \cup {refresh.today},
                                  !.completed = @ \cup {DayOf(now)}]
    \* the frame of fetch_sales_estimates is gone, the log of its requests
    \* is kept
    /\ sales' = [sales EXCEPT !.pc = "idle"]
    /\ UNCHANGED <<now, cache, usage_log, usage_file, last_request_time,
                   request_count, month_keys, last, ledger, directory>>

\* Time passes between two runs
RefreshWait ==
    /\ refresh.pc = "idle"
    /\ now < MaxRefreshTime
    /\ now' = now + 1
    /\ UNCHANGED <<cache, usage_log, usage_file, last_request_time,
                   request_count, month_keys, last, sales, ledger, refresh,
                   files, directory>>

NextRefresh ==
    \/ RefreshStart \/ RefreshChart \/ RefreshSales \/ SalesBatch
    \/ SalesReturn \/ RefreshWrite \/ RefreshWait

SpecRefresh == Init /\ [][NextRefresh]_vars

----------------------------------------------------------------------------
(* Properties of the gateway, the cache store and the ledger (Spec) *)

LastKey == _get_cache_key(last.endpoint, last.params)

\* A step taken by a call of _make_request, which last' then describes: the
\* step changes more than the clock
FetchStep ==
    /\ last'.op = "fetch"
    /\ ~UNCHANGED <<cache, usage_log, usage_file, last_request_time,
                    request_count, month_keys, last>>

Failed(status) == status \in {"http_error", "transport_error"}

\* Two dicts with the same key/value pairs, whatever the insertion order
SameDict(p, q) == Len(p) = Len(q) /\ Range(p) = Range(q)

\* Every insertion order of every sub-dict of three parameters
PermDicts ==
    LET Pairs == {<<"category", "6014">>, <<"country", "US">>,
                  <<"date", "2025-01-15">>}
    IN  {<<>>} \cup {<<a>> : a \in Pairs}
        \cup {s \in Pairs \X Pairs : s[1] # s[2]}
        \cup {s \in Pairs \X Pairs \X Pairs :
                 s[1] # s[2] /\ s[1] # s[3] /\ s[2] # s[3]}

\* C1: starting from an empty cache, two consecutive fetches of the same
\* request with use_cache=True, the second within the TTL and the upstream
\* response unchanged, return identical payloads, and usage rises by exactly 1
\* over the two calls: the second call is a cache hit without HTTP request.
C1_Idempotent ==
    [][ ( /\ FetchStep
          /\ last.op = "fetch" /\ last.cache_empty /\ last.use_cache
          /\ last.status = "ok"
          /\ last'.use_cache
          /\ last'.endpoint = last.endpoint /\ last'.params = last.params
          /\ last'.at - cache[LastKey].mtime < cache_ttl
          /\ (last'.http = 1 => last'.status = "ok" /\ last'.ret = last.ret) )
        => ( /\ last'.ret = last.ret
             /\ last.counted + last'.counted = 1
             /\ last'.hit /\ last'.http = 0 ) ]_vars

\* C2: a fetch whose GET returns a non-2xx status or fails at transport level
\* raises, and leaves the ledger (in memory and on disk) and the cache store
\* exactly as they were.
C2_FailureLeavesNoTrace ==
    [][ (FetchStep /\ Failed(last'.status))
        => ( /\ last'.raised
             /\ usage_log' = usage_log
             /\ usage_file' = usage_file
             /\ cache' = cache ) ]_vars

C2_Witness ==
    /\ last.op = "fetch" /\ Failed(last.status) /\ last.raised
    /\ usage_log.requests # <<>>
    /\ cache # EmptyFn

\* C3: a fetch with use_cache=True that finds an unexpired entry returns the
\* entry's payload, issues no HTTP request, leaves the ledger alone and neither
\* waits for nor updates the cooldown timestamp.
C3_HitHasNoEffect ==
    [][ ( /\ FetchStep
          /\ last'.use_cache
          /\ _is_cache_valid(cache, LastKey', now) )
        => ( /\ last'.ret = cache[LastKey'].data
             /\ last'.http = 0
             /\ ~last'.raised
             /\ usage_log' = usage_log /\ usage_file' = usage_file
             /\ now' = now
             /\ last_request_time' = last_request_time ) ]_vars

C5_ExpiryAtTTL ==
    /\ [][ (FetchStep /\ last'.status = "ok")
           => cache'[LastKey'] = [mtime |-> now', data |-> last'.ret] ]_vars
    /\ [][ (FetchStep /\ last'.use_cache /\ LastKey' \in DOMAIN cache)
           => (last'.hit <=> last'.at - cache[LastKey'].mtime < cache_ttl) ]_vars
    /\ [][ \A k \in DOMAIN cache :
             ( /\ ~_get_from_cache(cache, k, now).hit
               /\ k \in DOMAIN cache' /\ cache'[k] = cache[k] )
             => ~_get_from_cache(cache', k, now').hit ]_vars

C5_Witness ==
    /\ last.op = "fetch" /\ last.use_cache /\ ~last.hit /\ last.raised
    /\ LastKey \in DOMAIN cache
    /\ last.at - cache[LastKey].mtime = cache_ttl

\* The record calls made so far whose two clock reads fell in month m
MadeIn(m) ==
    Cardinality({i \in DOMAIN month_keys :
                    month_keys[i] = m
                    /\ MonthKey(usage_log.requests[i].timestamp) = m})

\* C6: from an empty ledger, after N record calls all made within one month
\* the count of that month is N; once the clock is in the next month the
\* earlier count keeps its value and the new month reads 0 until its first
\* record.
C6_MonthlyCount ==
    ( \A i \in DOMAIN month_keys :
          month_keys[i] = MonthKey(usage_log.requests[i].timestamp) )
    => /\ Len(month_keys) = Len(usage_log.requests)
       /\ \A m \in 0..MonthKey(MaxTime) :
             get_monthly_usage(usage_log, m) = MadeIn(m)

C6_Witness ==
    /\ MonthKey(now) = 1
    /\ get_monthly_usage(usage_log, 0) = 2
    /\ get_monthly_usage(usage_log, 1) = 0
    /\ \A i \in DOMAIN month_keys : month_keys[i] = 0
    /\ \A i \in DOMAIN usage_log.requests :
          MonthKey(usage_log.requests[i].timestamp) = 0

----------------------------------------------------------------------------
(* Properties of get_top_apps (SpecTop) *)

\* A step taken by a call of get_top_apps, which last' then describes
TopStep ==
    /\ last'.op = "top"
    /\ ~UNCHANGED <<cache, usage_log, usage_file, last_request_time,
                    request_count, month_keys, last>>

\* The cache keys of the get_top_apps call that rec describes
RankingKeyOf(rec) ==
    _get_cache_key("ios/ranking",
                   RankingParams(rec.category, rec.chart_type, rec.date))

DetailsKey(ids) == _get_cache_key("ios/apps", <<(<<"app_ids", ids>>)>>)

\* The ids that call takes from a ranking payload
IdsOf(rec, data) ==
    IF rec.limit # NoLimit THEN Take(DictGet(data, "ranking"), rec.limit)
    ELSE DictGet(data, "ranking")

\* Both entries of that call are cached in c and unexpired at t, the ranking
\* entry holding at least one id
BothCached(rec, c, t) ==
    /\ _is_cache_valid(c, RankingKeyOf(rec), t)
    /\ c[RankingKeyOf(rec)].data.kind = "dict"
    /\ IdsOf(rec, c[RankingKeyOf(rec)].data) # <<>>
    /\ _is_cache_valid(c, DetailsKey(IdsOf(rec, c[RankingKeyOf(rec)].data)), t)

\* C7: with resolve_details=True and a ranking response that holds at least
\* one app id, get_top_apps issues exactly 2 HTTP calls when the cache is
\* empty, and exactly 0 when it is called with use_cache=True while both of its
\* entries are cached and unexpired.
C7_TwoCallsThenNone ==
    /\ []( ( /\ last.op = "top" /\ last.resolve_details
             /\ last.cache_empty /\ last.ranking # <<>> )
           => last.http = 2 )
    /\ [][ ( /\ TopStep
             /\ last'.use_cache /\ last'.resolve_details
             /\ BothCached(last', cache, now) )
           => last'.http = 0 ]_vars

\* C25: a get_top_apps call with resolve_details set that returns a ranking
\* of at least one id made exactly one details request, and the ids it sent
\* are the ids of the ranking it returns (truncated to limit when a limit is
\* given, the whole ranking otherwise).
C25_OneDetailsCall ==
    ( /\ last.op = "top" /\ last.resolve_details
      /\ ~last.raised /\ last.ranking # <<>> )
    => ( /\ last.details_calls = 1
         /\ last.details_ids = last.ranking )

----------------------------------------------------------------------------
(* Properties of fetch_sales_estimates (SpecSales) *)

CeilDiv(n, d) == (n + d - 1) \div d

RECURSIVE Concat(_)
Concat(seqs) == IF seqs = <<>> THEN <<>> ELSE Head(seqs) \o Concat(Tail(seqs))

\* The id lists of the requests made for period p, in the order made
RequestedIn(p) ==
    LET made == SelectSeq(sales.log, LAMBDA e : e.p = p)
    IN  [i \in DOMAIN made |-> made[i].app_ids]

\* C8: for a list of n ids, ceil(n/100) sales-estimate requests are made for
\* each period, every batch holds at most 100 ids, and the batches in order
\* concatenate to the input list.
C8_Batching ==
    LET n == Len(sales.app_ids_list)
    IN  /\ sales.pc # "idle" =>
            /\ Len(sales.batches) = CeilDiv(n, 100)
            /\ \A k \in DOMAIN sales.batches : Len(sales.batches[k]) <= 100
            /\ Concat(sales.batches) = sales.app_ids_list
        /\ sales.pc = "done" =>
            \A p \in DOMAIN PeriodKeys :
                /\ Len(RequestedIn(p)) = CeilDiv(n, 100)
                /\ \A k \in DOMAIN RequestedIn(p) : Len(RequestedIn(p)[k]) <= 100
                /\ Concat(RequestedIn(p)) = sales.app_ids_list

C8_Witness ==
    /\ sales.pc = "done"
    /\ Len(sales.app_ids_list) = 250
    /\ \A p \in DOMAIN PeriodKeys : Len(RequestedIn(p)) = 3

\* The records of the response logged in entry e
RecordsOf(e) ==
    IF e.raised \/ e.data.kind = "null" THEN <<>> ELSE e.data.body

\* The records of the successful requests of period p that are about aid, as
\* <<log index, record index>>
RecordsAbout(aid, p) ==
    {ij \in (DOMAIN sales.log) \X (1..3) :
        /\ sales.log[ij[1]].p = p
        /\ ~sales.log[ij[1]].raised
        /\ ij[2] \in DOMAIN RecordsOf(sales.log[ij[1]])
        /\ RecordsOf(sales.log[ij[1]])[ij[2]].aid = aid}

IuAt(ij) == RecordsOf(sales.log[ij[1]])[ij[2]].iu

RevenueAt(ij) == IntCents(RecordsOf(sales.log[ij[1]])[ij[2]].ir)

RECURSIVE SumIu(_)
SumIu(S) ==
    IF S = {} THEN 0
    ELSE LET x == CHOOSE y \in S : TRUE IN IuAt(x) + SumIu(S \ {x})

RECURSIVE SumRevenue(_)
SumRevenue(S) ==
    IF S = {} THEN 0
    ELSE LET x == CHOOSE y \in S : TRUE IN RevenueAt(x) + SumRevenue(S \ {x})

\* The ids the successful responses hold records about
AidsSeen ==
    {RecordsOf(sales.log[ij[1]])[ij[2]].aid :
        ij \in {x \in (DOMAIN sales.log) \X (1..3) :
                  x[2] \in DOMAIN RecordsOf(sales.log[x[1]])}} \ {0}

\* C9: when a batch request fails, every batch of every period is still
\* requested, the function returns, and the totals are the sums over the
\* records of the successful batches only.
C9_FailedBatchSkipped ==
    sales.pc = "done" =>
        /\ \A p \in DOMAIN PeriodKeys : \A b \in DOMAIN sales.batches :
              \E i \in DOMAIN sales.log :
                  sales.log[i].p = p /\ sales.log[i].b = b
        /\ DOMAIN sales.results = AidsSeen
        /\ \A aid \in DOMAIN sales.results : \A p \in DOMAIN PeriodKeys :
              /\ sales.results[aid][DlKey[p]]
                    = SumIu(RecordsAbout(aid, p))
              /\ sales.results[aid][RevKey[p]]
                    = SumRevenue(RecordsAbout(aid, p))

\* Batch 2 of 3 failed in the first period and nothing else did
C9_Witness ==
    /\ sales.pc = "done"
    /\ Len(sales.batches) = 3
    /\ \A i \in DOMAIN sales.log :
          sales.log[i].raised <=> (sales.log[i].p = 1 /\ sales.log[i].b = 2)
    /\ Len(sales.log) = 9
    /\ sales.results # EmptyFn

\* What a run returns in which the failed requests of this run succeed with
\* a response holding no records and the other responses are the same
RECURSIVE TwinResults(_)
TwinResults(i) ==
    IF i = 0 THEN EmptyFn
    ELSE Aggregate(TwinResults(i - 1),
                   IF sales.log[i].raised THEN Shaped(<<>>, sales.shape)
                   ELSE sales.log[i].data,
                   sales.log[i].p)

\* C10: when a batch of a run of several batches failed, the returned value
\* tells the caller so: it differs from what a run returns in which every
\* batch succeeded.
C10_FlaggedIncomplete ==
    ( /\ sales.pc = "done"
      /\ Len(sales.batches) > 1
      /\ \E i \in DOMAIN sales.log : sales.log[i].raised )
    => sales.results # TwinResults(Len(sales.log))

\* The sum over the records in S of ir integer-divided by 100
RECURSIVE SumUnits(_)
SumUnits(S) ==
    IF S = {} THEN 0
    ELSE LET x == CHOOSE y \in S : TRUE
         IN  (RecordsOf(sales.log[x[1]])[x[2]].ir \div 100) + SumUnits(S \ {x})

\* C11: every record contributes its ir integer-divided by 100 to the revenue
\* of its app for the period (12345 cents contribute 123), and the revenue of
\* an app for a period is the sum of these contributions over the records
\* returned for the app, at every point of the aggregation.
C11_RevenueUnits ==
    /\ IntCents(12345) = 123
    /\ \A aid \in DOMAIN sales.results : \A p \in DOMAIN PeriodKeys :
          sales.results[aid][RevKey[p]] = SumUnits(RecordsAbout(aid, p))

\* Two records of 12390 cents for one app in the 3m period: 246 units, not 247
C11_Witness ==
    /\ sales.pc = "done"
    /\ \E aid \in DOMAIN sales.results :
          /\ Cardinality(RecordsAbout(aid, 2)) = 2
          /\ \A ij \in RecordsAbout(aid, 2) :
                RecordsOf(sales.log[ij[1]])[ij[2]].ir = 12390
          /\ sales.results[aid].revenue_3m = 246

----------------------------------------------------------------------------
(* Properties of the cache read on damaged files (SpecCorrupt) *)

\* C12: a fetch with use_cache=True whose cache file is within the TTL but
\* is not valid JSON, or lacks the data member, treats the file as a miss: it
\* goes on to the upstream call and no exception of the cache read reaches
\* the caller.
C12_CorruptIsMiss ==
    [][ ( /\ FetchStep
          /\ last'.use_cache
          /\ _is_cache_valid(cache, LastKey', now)
          /\ IsCorrupt(cache[LastKey']) )
        => (last'.http = 1 /\ ~last'.read_raised) ]_vars

----------------------------------------------------------------------------
(* Further properties of the ledger and the gateway (Spec) *)

\* The usage records whose timestamp falls in month m
RecordsIn(m) ==
    Cardinality({i \in DOMAIN usage_log.requests :
                    MonthKey(usage_log.requests[i].timestamp) = m})

\* C13: in every reachable state of a ledger that started empty, the counter
\* of every month equals the number of usage records whose timestamp falls in
\* that month, however the clock advances between and during the record calls.
C13_CounterMatchesRecords ==
    \A m \in 0..(MonthKey(MaxTime) + 1) :
        get_monthly_usage(usage_log, m) = RecordsIn(m)

----------------------------------------------------------------------------
(* Properties of the ledger file and of two client instances (SpecLedger) *)

\* C14: at every point during and after a record call, a crash inside the
\* write included, the ledger file holds the complete state before the call
\* or the complete state with the new record and the incremented counter; it
\* is never torn or empty.
C14_AtomicLedgerWrite ==
    /\ ~ledger.torn
    /\ ledger.pc # "idle" =>
          \/ usage_file = ledger.before
          \/ usage_file = [exists |-> TRUE, content |-> Mem(ledger.who)]

\* The record calls completed through instance who
CallsThrough(who) ==
    Cardinality({i \in DOMAIN ledger.recorded : ledger.recorded[i] = who})

\* C20: two client instances of one process share one ledger: between record
\* calls each instance's monthly count is the other's, and once both have
\* recorded calls the persisted counters add up to the number of calls
\* recorded through both.
C20_SharedLedger ==
    (ledger.made /\ ledger.pc = "idle") =>
        /\ \A m \in 0..MonthKey(MaxTime) :
              get_monthly_usage(usage_log, m)
                  = get_monthly_usage(ledger.usage_log, m)
        /\ (CallsThrough(1) > 0 /\ CallsThrough(2) > 0) =>
              TotalCount(usage_file.content) = Len(ledger.recorded)

----------------------------------------------------------------------------
(* Properties of the quota warning (SpecQuota) *)

\* The current month's usage that the client's next GET reads before sending
UsageAtSend == get_monthly_usage(usage_log, MonthKey(SendTime(Client)))

\* C15: whatever the current month's usage, a fetch that does not hit the
\* cache issues the HTTP request, and raises only if the upstream fails; when
\* the usage is at or over the hard limit before sending, the warning is
\* emitted.
C15_AdvisoryQuota ==
    [][ ( /\ FetchStep
          /\ ~(last'.use_cache /\ _is_cache_valid(cache, LastKey', now)) )
        => ( /\ last'.http = 1
             /\ last'.raised => Failed(last'.status)
             /\ (UsageAtSend >= HardLimit \/ UsageAtSend >= hard_limit)
                   => last'.warned ) ]_vars

\* A GET sent and answered with the usage exactly at the limit before it
C15_Witness ==
    /\ last.op = "fetch" /\ last.http = 1 /\ last.status = "ok"
    /\ last.warned
    /\ TotalCount(usage_log) = HardLimit + 1

----------------------------------------------------------------------------
(* Properties of the cooldown, of retries and of a successful call (Spec) *)

\* C16: two successive outbound HTTP calls of one client are sent at least
\* rate_limit_delay apart, whether the earlier one succeeded, got a non-2xx
\* status or failed at transport level.
C16_Cooldown ==
    [][ ( /\ FetchStep
          /\ last.op = "fetch" /\ last.http = 1
          /\ last'.http = 1 )
        => last'.sent_at - last.sent_at >= rate_limit_delay ]_vars

\* C17: a fetch issues at most one HTTP request, whether it succeeds or
\* fails; after a failed request the call raises without sending it again.
C17_NoRetry ==
    [][ FetchStep
        => ( /\ last'.http <= 1
             /\ Failed(last'.status) => (last'.http = 1 /\ last'.raised) ) ]_vars

C17_Witness ==
    /\ last.op = "fetch" /\ last.status = "http_error"
    /\ last.http = 1 /\ last.raised
    /\ request_count = 0

\* C18: after a fetch that reaches the upstream and succeeds, with use_cache
\* True or False, one usage record for the endpoint has been appended, the
\* count of the current month is one higher, and the cache entry of (endpoint,
\* params) holds the returned payload in place of any earlier one, the other
\* entries being as they were.
C18_SuccessRecordsAndCaches ==
    [][ (FetchStep /\ last'.http = 1 /\ last'.status = "ok")
        => ( /\ ~last'.raised
             /\ Len(usage_log'.requests) = Len(usage_log.requests) + 1
             /\ SubSeq(usage_log'.requests, 1, Len(usage_log.requests))
                   = usage_log.requests
             /\ usage_log'.requests[Len(usage_log'.requests)].endpoint
                   = last'.endpoint
             /\ get_monthly_usage(usage_log', MonthKey(now'))
                   = get_monthly_usage(usage_log, MonthKey(now')) + 1
             /\ TotalCount(usage_log') = TotalCount(usage_log) + 1
             /\ usage_file' = [exists |-> TRUE, content |-> usage_log']
             /\ DOMAIN cache' = DOMAIN cache \cup {LastKey'}
             /\ cache'[LastKey'].data = last'.ret
             /\ \A k \in DOMAIN cache \ {LastKey'} : cache'[k] = cache[k] ) ]_vars

\* A successful call with use_cache=False put its payload in place of a
\* different one
C18_Witness ==
    /\ last.op = "fetch" /\ ~last.use_cache
    /\ last.http = 1 /\ last.status = "ok"
    /\ last.replaced
    /\ cache[LastKey].data = last.ret

----------------------------------------------------------------------------
(* Further properties of fetch_sales_estimates (SpecSales) *)

\* The requests of period p for the batch that holds aid all failed
BatchFailedFor(aid, p) ==
    /\ \E i \in DOMAIN sales.log :
          sales.log[i].p = p /\ aid \in Range(sales.log[i].app_ids)
    /\ \A i \in DOMAIN sales.log :
          (sales.log[i].p = p /\ aid \in Range(sales.log[i].app_ids))
              => sales.log[i].raised

\* C19: in the returned totals no app carries downloads or revenue of 0 for
\* a period whose batch request failed.
C19_FailedNotZero ==
    sales.pc = "done" =>
        \A aid \in DOMAIN sales.results : \A p \in DOMAIN PeriodKeys :
            BatchFailedFor(aid, p) =>
                /\ sales.results[aid][DlKey[p]] # 0
                /\ sales.results[aid][RevKey[p]] # 0

\* C21: two processes that loaded the same ledger file and then each
\* recorded calls lose updates: once both have recorded, the persisted
\* counters add up to less than the number of calls the two recorded.
C21_LostUpdate ==
    ( /\ ledger.pc = "idle" /\ ledger.made
      /\ Len(ledger.usage_log.requests) = CallsThrough(2)
      /\ CallsThrough(1) > 0 /\ CallsThrough(2) > 0 )
    => TotalCount(usage_file.content) < Len(ledger.recorded)

\* Both loaded the empty ledger, the first recorded two calls and then the
\* second one: the file counts one call of three
C21_Witness ==
    /\ ledger.pc = "idle" /\ ledger.made
    /\ ledger.recorded = <<1, 1, 2>>
    /\ Len(ledger.usage_log.requests) = 1
    /\ TotalCount(usage_file.content) = 1

----------------------------------------------------------------------------
(* Properties of the sweep, of cache reads and of the ledger's growth       *)
(* (SpecSweep)                                                              *)

\* A step taken by a call of clear_old_cache, which last' then describes
SweepStep ==
    /\ last'.op = "sweep"
    /\ (last' # last \/ cache' # cache)

\* C22: clear_old_cache(days) deletes exactly the entries whose modification
\* time is earlier than the current time minus days, leaves every other
\* entry and the ledger as they were, and returns the number it deleted.
C22_SweepDeletesOld ==
    [][ SweepStep
        => ( /\ DOMAIN cache'
                  = {k \in DOMAIN cache :
                        ~(cache[k].mtime < now - last'.days * DayLen)}
             /\ \A k \in DOMAIN cache' : cache'[k] = cache[k]
             /\ last'.removed = Cardinality(DOMAIN cache \ DOMAIN cache')
             /\ UNCHANGED <<usage_log, usage_file, request_count,
                            last_request_time>> ) ]_vars

\* A sweep deleted one entry and kept another, one exactly as old as the cutoff
C22_Witness ==
    /\ last.op = "sweep" /\ last.removed = 1 /\ last.at = now
    /\ \E k \in DOMAIN cache : cache[k].mtime = now - last.days * DayLen

\* C23: a cache read deletes or changes no entry; an entry leaves the store or
\* changes only when a successful fetch writes its key or a sweep removes it
\* as too old.
C23_ReadsKeepEntries ==
    [][ \A k \in DOMAIN cache :
          (k \notin DOMAIN cache' \/ cache'[k] # cache[k])
          => \/ /\ last'.op = "fetch"
                /\ last'.http = 1 /\ last'.status = "ok"
                /\ k = LastKey' /\ k \in DOMAIN cache'
             \/ /\ last'.op = "sweep"
                /\ k \notin DOMAIN cache'
                /\ cache[k].mtime < now - last'.days * DayLen ]_vars

\* An entry older than the TTL is still there after a read that found it
\* expired and whose GET failed
C23_Witness ==
    /\ last.op = "fetch" /\ last.use_cache /\ ~last.hit
    /\ Failed(last.status)
    /\ LastKey \in DOMAIN cache
    /\ last.at - cache[LastKey].mtime > cache_ttl

IsPrefix(s, t) == Len(s) <= Len(t) /\ SubSeq(t, 1, Len(s)) = s

\* The ledger new grew out of the ledger old by appending records only
GrewFrom(old, new) ==
    /\ IsPrefix(old.requests, new.requests)
    /\ \A m \in DOMAIN old.monthly_counts :
          get_monthly_usage(new, m) >= old.monthly_counts[m]

\* C24: across cache hits, successful fetches, failed fetches and sweeps the
\* record list of the ledger, in memory and on disk, changes only by
\* appending, and no month's count decreases.
C24_AppendOnly ==
    [][ /\ GrewFrom(usage_log, usage_log')
        /\ GrewFrom(usage_file.content, usage_file'.content)
        /\ usage_file.exists => usage_file'.exists ]_vars

\* Two records were appended and a sweep that deleted an entry followed
C24_Witness ==
    /\ Len(usage_log.requests) = 2
    /\ usage_file.content = usage_log
    /\ last.op = "sweep" /\ last.removed > 0

----------------------------------------------------------------------------
(* A stored null payload (Spec)                                             *)

\* C29: an unexpired cache entry whose payload is JSON null is not served as
\* a hit: a use_cache=True fetch of its request issues an HTTP request, and
\* when that request succeeds the call is recorded, so the usage count rises
\* by one with every such fetch.
C29_NullNeverHit ==
    [][ ( /\ FetchStep
          /\ last'.use_cache
          /\ _is_cache_valid(cache, LastKey', now)
          /\ cache[LastKey'].data = Null )
        => ( /\ last'.http = 1
             /\ last'.status = "ok"
                  => /\ TotalCount(usage_log') = TotalCount(usage_log) + 1
                     /\ TotalCount(usage_file'.content)
                          = TotalCount(usage_file.content) + 1 ) ]_vars

\* The second fetch of a request answered with null both times: the entry was
\* unexpired, a GET went out all the same and two calls are counted
C29_Witness ==
    /\ last.op = "fetch" /\ last.use_cache /\ last.hit
    /\ last.http = 1 /\ last.status = "ok" /\ last.ret = Null
    /\ TotalCount(usage_log) = 2
    /\ TotalCount(usage_file.content) = 2

----------------------------------------------------------------------------
(* Properties of build_app_details (SpecDirectory)                          *)

\* The apps of chart s (1 top_free, 2 top_grossing) of category c
ChartAt(c, s) ==
    ChartOf(IF s = 1 THEN directory.free_data ELSE directory.grossing_data,
            CategoryNames[c])

\* The places <<category, source, index>> at which an app record occurs
Occurrences ==
    {pl \in (1..NumCategories) \X (1..2) \X (1..MaxChartApps) :
        pl[3] <= Len(ChartAt(pl[1], pl[2]))}

AppAt(pl) == ChartAt(pl[1], pl[2])[pl[3]]

\* Place a comes before place b in iteration order
Earlier(a, b) ==
    \/ a[1] < b[1]
    \/ a[1] = b[1] /\ a[2] < b[2]
    \/ a[1] = b[1] /\ a[2] = b[2] /\ a[3] < b[3]

\* C26: the directory build_app_details returns has one record for each
\* app_id that occurs in the charts and for no other, and that record is the
\* one taken from the first occurrence of the app_id in iteration order
\* (categories in configured order, top-free before top-grossing).
C26_FirstSeenWins ==
    directory.pc = "returned"
    => /\ DOMAIN directory.app_details = {AppAt(pl).app_id : pl \in Occurrences}
       /\ \A pl \in Occurrences :
            (\A q \in Occurrences :
                AppAt(q).app_id = AppAt(pl).app_id => ~Earlier(q, pl))
            => directory.app_details[AppAt(pl).app_id]
                 = [app_id |-> AppAt(pl).app_id, name |-> AppAt(pl).name]

\* App 1 is in the first category's top-free chart and again in the second
\* category's top-grossing chart; the directory holds the first record
C26_Witness ==
    /\ directory.pc = "returned"
    /\ ChartAt(1, 1) # <<>> /\ ChartAt(1, 1)[1].app_id = 1
    /\ ChartAt(2, 2) # <<>> /\ ChartAt(2, 2)[1].app_id = 1
    /\ ChartAt(1, 1)[1].name # ChartAt(2, 2)[1].name
    /\ directory.app_details[1].name = ChartAt(1, 1)[1].name

----------------------------------------------------------------------------
(* Properties of refresh_data (SpecRefresh)                                 *)

\* C27 as stated: once runs have ended, the snapshot store holds a snapshot
\* for exactly the calendar dates on which a run completed.
C27_SnapshotPerCompletionDate ==
    refresh.pc = "idle" => DOMAIN files.snapshots = refresh.completed

\* C27, amended: the snapshot store holds exactly one snapshot for each date
\* that was the current date at the start of a run that reached the snapshot
\* write (a run that crosses midnight stores its snapshot under the date on
\* which it started; a second run started on the same date replaces that
\* date's snapshot), and a run neither modifies nor deletes the snapshot of
\* any date but the one it started on.
C27_SnapshotPerStartDate ==
    [][ /\ DOMAIN files'.snapshots = refresh'.wrote
        /\ \A d \in DOMAIN files'.snapshots : files'.snapshots[d].date = d
        /\ \A d \in DOMAIN files.snapshots :
              /\ d \in DOMAIN files'.snapshots
              /\ files'.snapshots[d] # files.snapshots[d]
                   => /\ d = refresh.today
                      /\ files'.snapshots[d].run = refresh.runs ]_vars

\* Two runs wrote: the first started on day 0 and ended on day 1, the second
\* started on day 1; the store holds the first run's snapshot under day 0
\* and the second's under day 1
C27_Witness ==
    /\ refresh.pc = "idle" /\ refresh.runs = 2
    /\ refresh.wrote = {0, 1} /\ refresh.completed = {1}
    /\ DOMAIN files.snapshots = {0, 1}
    /\ files.snapshots[0].run = 1 /\ files.snapshots[1].run = 2

\* C28: the metadata field api_calls_this_refresh of a run is the number of
\* successful upstream calls the run made (the request_count of its client),
\* also when the month changed during the run.
C28_CallsThisRefresh ==
    ( /\ refresh.pc = "idle" /\ refresh.runs > 0
      /\ files.metadata.run = refresh.runs )
    => files.metadata.api_calls_this_refresh = request_count

\* C30: a run in which a get_top_apps call raised has ended and has left
\* every artifact as it was when the run started; artifacts change only in
\* the write step of a run none of whose get_top_apps calls raised; a failed
\* sales-estimate request leaves the run in its sales phase, and the only
\* way out of that phase is the write step.
C30_RaiseWritesNothing ==
    [][ /\ refresh'.raised
             => (refresh'.pc = "idle" /\ files' = refresh'.before)
        /\ files' # files
             => (~refresh.raised /\ refresh.pc = "sales" /\ sales.pc = "done")
        /\ NumFailed(sales'.log) > NumFailed(sales.log)
             => ( /\ refresh'.pc = "sales" /\ sales'.pc = "loop"
                  /\ ~refresh'.raised /\ files' = files )
        /\ (refresh.pc = "sales" /\ refresh'.pc = "idle")
             => ( /\ files'.metadata.run = refresh.runs
                  /\ files'.current.run = refresh.runs
                  /\ files'.snapshots[refresh.today].run = refresh.runs )
      ]_vars

\* The first run wrote its artifacts although two of its sales-estimate
\* requests failed; the details request of the second run raised and the
\* artifacts are still those of the first run
C30_Witness ==
    /\ refresh.pc = "idle" /\ refresh.runs = 2 /\ refresh.raised
    /\ last.op = "top" /\ last.raised /\ last.http = 2
    /\ NumFailed(sales.log) = 2
    /\ files.metadata.run = 1 /\ files.current.run = 1
    /\ files = refresh.before

====
